---- MODULE Spec2Model ----
(***************************************************************************)
(* Model of pkg/apis/serving/v1alpha1/route_validation.go:                 *)
(*   Route.Validate, RouteSpec.Validate and TrafficTarget.Validate.        *)
(*                                                                         *)
(* Three specifications share the definitions below:                       *)
(*   Spec        one Route.Validate call, stepped through its code;        *)
(*   ConcSpec    two Route.Validate calls with interleaved steps;          *)
(*   TargetSpec  TrafficTarget.Validate applied to one target.             *)
(***************************************************************************)
EXTENDS Integers, Sequences, FiniteSets, TLC

VARIABLES
    routes,     \* the Route objects: object id -> Route value
    obj,        \* call -> the object the call validates (the receiver r)
    pc,         \* call -> position in the code
    rerrs,      \* call -> Route.Validate's local errs (line 30)
    locals,     \* storage slot -> RouteSpec.Validate's locals (lines 40-47)
    specRet,    \* call -> value returned by RouteSpec.Validate
    result,     \* call -> value returned by Route.Validate
    callCtx,    \* call -> the context the call was given
    tt,         \* TargetSpec: the target under validation
    ttPc,       \* TargetSpec: position ("idle", "call", "done")
    ttRet       \* TargetSpec: value returned by TrafficTarget.Validate

vars == <<routes, obj, pc, rerrs, locals, specRet, result, callCtx, tt, ttPc, ttRet>>

(***************************************************************************)
(* Bounds of the model.                                                    *)
(***************************************************************************)
MaxTargets == 3
MaxConcTargets == 2

(***************************************************************************)
(* Go's int on the 64-bit builds of the controller: a value v is written   *)
(* [hi |-> h, lo |-> l] and denotes h * 2^62 + l, with |l| small.  The     *)
(* values of int64 are the pairs with -2^63 <= v < 2^63:  h in -1..1, or   *)
(* h = -2 with l >= 0, or h = 2 with l < 0.                                *)
(***************************************************************************)
I64(n) == [hi |-> 0, lo |-> n]
MinInt64 == [hi |-> -2, lo |-> 0]
MaxInt64 == [hi |-> 2, lo |-> -1]

\* Two's-complement wrap of the mathematical value h * 2^62 + l.
Wrap64(h, l) ==
    LET h0 == ((h + 2) % 4) - 2
    IN  IF h0 = -2 /\ l < 0 THEN [hi |-> 2, lo |-> l] ELSE [hi |-> h0, lo |-> l]

\* a + b as Go computes it on int (line 51): silent wrap-around.
AddInt(a, b) == Wrap64(a.hi + b.hi, a.lo + b.lo)

\* a < n and a > n for a small literal n (lines 100, 74).
LtLit(a, n) == a.hi < 0 \/ (a.hi = 0 /\ a.lo < n)
GtLit(a, n) == a.hi > 0 \/ (a.hi = 0 /\ a.lo > n)
NeLit(a, n) == ~(a.hi = 0 /\ a.lo = n)

(***************************************************************************)
(* apis.FieldError: a message with the paths it applies to; merged errors  *)
(* are kept in merge order.  Nil is the absent error.  A path is the       *)
(* sequence of its segments ("traffic", "[2]", "percent"); CurrentField    *)
(* is the empty segment.                                                   *)
(***************************************************************************)
Nil == <<>>
CurrentField == ""

FieldError(kind, paths) ==
    [kind |-> kind, paths |-> paths, key |-> "", value |-> I64(0), details |-> <<>>]

ErrMissingField(path) == <<FieldError("MissingField", <<path>>)>>
ErrDisallowedFields(path) == <<FieldError("DisallowedFields", <<path>>)>>
ErrMultipleOneOf(p1, p2) == <<FieldError("MultipleOneOf", <<p1, p2>>)>>
ErrMissingOneOf(p1, p2) == <<FieldError("MissingOneOf", <<p1, p2>>)>>
ErrInvalidKeyName(key, path, verrs) ==
    <<[FieldError("InvalidKeyName", <<path>>) EXCEPT !.key = key, !.details = verrs]>>
ErrOutOfBoundsValue(value, path) ==
    <<[FieldError("OutOfBoundsValue", <<path>>) EXCEPT !.value = value]>>

\* fe.Also(other): the errors of fe, then those of other; Nil is the identity.
Also(fe, other) == fe \o other

\* flatten: drop CurrentField segments of the joined path.
Flatten(path) == SelectSeq(path, LAMBDA s : s # CurrentField)

\* fe.ViaField(prefix): every path of every error gets the prefix.
ViaField(fe, prefix) ==
    [k \in 1..Len(fe) |->
        [fe[k] EXCEPT !.paths =
            [p \in 1..Len(fe[k].paths) |-> Flatten(<<prefix>> \o fe[k].paths[p])]]]

asIndex(i) == "[" \o ToString(i) \o "]"
ViaIndex(fe, i) == ViaField(fe, asIndex(i))
ViaFieldIndex(fe, field, i) == ViaField(ViaIndex(fe, i), field)

\* The path as the string a caller sees: segments joined by ".", an index
\* segment appended to the segment before it.
RECURSIVE Render(_)
Render(path) ==
    IF Len(path) = 0 THEN ""
    ELSE IF Len(path) = 1 THEN path[1]
    ELSE LET init == Render(SubSeq(path, 1, Len(path) - 1))
             last == path[Len(path)]
         IN  IF last \in {asIndex(i) : i \in 0..(MaxTargets + 1)}
             THEN init \o last
             ELSE init \o "." \o last

(***************************************************************************)
(* validation.IsQualifiedName: the violations of a name, empty when the    *)
(* name is a qualified name.                                               *)
(***************************************************************************)
IsQualifiedName(s) ==
    IF s \in {"rev-1", "cfg-1"} THEN <<>>
    ELSE <<"name part must consist of alphanumeric characters, '-', '_' or '.'">>

(***************************************************************************)
(* TrafficTarget.Validate (lines 84-107).                                  *)
(***************************************************************************)
\* Faulty variant: the bounds test written with <= (a weight of 0 is rejected).
TrafficTargetValidateLeq(t) ==
    LET sel ==
          IF t.RevisionName # "" /\ t.ConfigurationName # ""
          THEN ErrMultipleOneOf(<<"revisionName">>, <<"configurationName">>)
          ELSE IF t.RevisionName # ""
          THEN IF Len(IsQualifiedName(t.RevisionName)) > 0
               THEN ErrInvalidKeyName(t.RevisionName, <<"revisionName">>,
                                      IsQualifiedName(t.RevisionName))
               ELSE Nil
          ELSE IF t.ConfigurationName # ""
          THEN IF Len(IsQualifiedName(t.ConfigurationName)) > 0
               THEN ErrInvalidKeyName(t.ConfigurationName, <<"configurationName">>,
                                      IsQualifiedName(t.ConfigurationName))
               ELSE Nil
          ELSE ErrMissingOneOf(<<"revisionName">>, <<"configurationName">>)
        bnd == IF ~GtLit(t.Percent, 0) \/ GtLit(t.Percent, 100)
               THEN Also(sel, ErrOutOfBoundsValue(t.Percent, <<"percent">>))
               ELSE sel
    IN  IF t.URL # "" THEN Also(bnd, ErrDisallowedFields(<<"url">>)) ELSE bnd

\* Faulty variant: the single-field cases tried before the both-set case.
TrafficTargetValidateSwitchOrder(t) ==
    LET sel ==
          IF t.RevisionName # ""
          THEN IF Len(IsQualifiedName(t.RevisionName)) > 0
               THEN ErrInvalidKeyName(t.RevisionName, <<"revisionName">>,
                                      IsQualifiedName(t.RevisionName))
               ELSE Nil
          ELSE IF t.ConfigurationName # ""
          THEN IF Len(IsQualifiedName(t.ConfigurationName)) > 0
               THEN ErrInvalidKeyName(t.ConfigurationName, <<"configurationName">>,
                                      IsQualifiedName(t.ConfigurationName))
               ELSE Nil
          ELSE IF t.RevisionName # "" /\ t.ConfigurationName # ""
          THEN ErrMultipleOneOf(<<"revisionName">>, <<"configurationName">>)
          ELSE ErrMissingOneOf(<<"revisionName">>, <<"configurationName">>)
        bnd == IF LtLit(t.Percent, 0) \/ GtLit(t.Percent, 100)
               THEN Also(sel, ErrOutOfBoundsValue(t.Percent, <<"percent">>))
               ELSE sel
    IN  IF t.URL # "" THEN Also(bnd, ErrDisallowedFields(<<"url">>)) ELSE bnd

\* Faulty variant: return at the first violation found.
TrafficTargetValidateShortCircuit(t) ==
    LET sel ==
          IF t.RevisionName # "" /\ t.ConfigurationName # ""
          THEN ErrMultipleOneOf(<<"revisionName">>, <<"configurationName">>)
          ELSE IF t.RevisionName # ""
          THEN IF Len(IsQualifiedName(t.RevisionName)) > 0
               THEN ErrInvalidKeyName(t.RevisionName, <<"revisionName">>,
                                      IsQualifiedName(t.RevisionName))
               ELSE Nil
          ELSE IF t.ConfigurationName # ""
          THEN IF Len(IsQualifiedName(t.ConfigurationName)) > 0
               THEN ErrInvalidKeyName(t.ConfigurationName, <<"configurationName">>,
                                      IsQualifiedName(t.ConfigurationName))
               ELSE Nil
          ELSE ErrMissingOneOf(<<"revisionName">>, <<"configurationName">>)
    IN  IF sel # Nil THEN sel
        ELSE IF LtLit(t.Percent, 0) \/ GtLit(t.Percent, 100)
        THEN ErrOutOfBoundsValue(t.Percent, <<"percent">>)
        ELSE IF t.URL # "" THEN ErrDisallowedFields(<<"url">>) ELSE Nil

TrafficTargetValidate(t) ==
    LET sel ==      \* the switch, lines 86-99
          IF t.RevisionName # "" /\ t.ConfigurationName # ""
          THEN ErrMultipleOneOf(<<"revisionName">>, <<"configurationName">>)
          ELSE IF t.RevisionName # ""
          THEN IF Len(IsQualifiedName(t.RevisionName)) > 0
               THEN ErrInvalidKeyName(t.RevisionName, <<"revisionName">>,
                                      IsQualifiedName(t.RevisionName))
               ELSE Nil
          ELSE IF t.ConfigurationName # ""
          THEN IF Len(IsQualifiedName(t.ConfigurationName)) > 0
               THEN ErrInvalidKeyName(t.ConfigurationName, <<"configurationName">>,
                                      IsQualifiedName(t.ConfigurationName))
               ELSE Nil
          ELSE ErrMissingOneOf(<<"revisionName">>, <<"configurationName">>)
        bnd ==      \* lines 100-102
          IF LtLit(t.Percent, 0) \/ GtLit(t.Percent, 100)
          THEN Also(sel, ErrOutOfBoundsValue(t.Percent, <<"percent">>))
          ELSE sel
    IN  IF t.URL # ""    \* lines 103-105
        THEN Also(bnd, ErrDisallowedFields(<<"url">>))
        ELSE bnd

(***************************************************************************)
(* Collaborators of the validators.  The object-metadata validator and the *)
(* deprecated-field check are opaque: their answer is part of the input    *)
(* (the object's metadata, the call's context).                            *)
(***************************************************************************)
ValidateObjectMetadata(meta) == meta.answer
CheckDeprecated(ctx, generation) == ctx.deprecated

\* equality.Semantic.DeepEqual(rs, &RouteSpec{}): a nil and an empty slice
\* are equal, so rs is the zero value iff it has no target and no generation.
\* Faulty variant: the pointers compared instead of the values (never equal).
DeepEqualPointers(rs) == FALSE

DeepEqualZero(rs) == rs.DeprecatedGeneration = 0 /\ Len(rs.Traffic) = 0

(***************************************************************************)
(* RouteSpec.Validate (lines 35-81), by its parts.  Its locals are the     *)
(* record [errs, trafficMap, percentSum, i].                               *)
(***************************************************************************)
EmptyMap == [n \in {} |-> 0]

\* Lines 40-47: the locals on entry to the loop.
EntryLocals(ctx, rs) ==
    [errs |-> CheckDeprecated(ctx, rs.DeprecatedGeneration),
     trafficMap |-> EmptyMap,
     percentSum |-> I64(0),
     i |-> 0]

NamePath(i) == <<"traffic", asIndex(i), "name">>

\* Lines 64-70: the error for a name that trafficMap already holds.
MultipleDefinitions(name, ent, i) ==
    <<[FieldError("DuplicateDefinition", <<NamePath(ent), NamePath(i)>>)
          EXCEPT !.key = name]>>

\* Faulty variant: the map entry is overwritten at every occurrence of a name, so a
\* repeat is reported against the latest occurrence before it.
LoopBodyLastSeen(l, t) ==
    LET errs == Also(l.errs, ViaFieldIndex(TrafficTargetValidate(t), "traffic", l.i))
        sum  == AddInt(l.percentSum, t.Percent)
    IN  IF t.Name = ""
        THEN [l EXCEPT !.errs = errs, !.percentSum = sum, !.i = l.i + 1]
        ELSE IF t.Name \notin DOMAIN l.trafficMap
        THEN [l EXCEPT !.errs = errs, !.percentSum = sum, !.i = l.i + 1,
                       !.trafficMap = (t.Name :> l.i) @@ l.trafficMap]
        ELSE [l EXCEPT !.errs = Also(errs, MultipleDefinitions(t.Name, l.trafficMap[t.Name], l.i)),
                       !.percentSum = sum, !.i = l.i + 1,
                       !.trafficMap = (t.Name :> l.i) @@ l.trafficMap]

\* Faulty variant: the target's errors are scoped with a 1-based index.
LoopBodyOneBased(l, t) ==
    LET errs == Also(l.errs, ViaFieldIndex(TrafficTargetValidate(t), "traffic", l.i + 1))
        sum  == AddInt(l.percentSum, t.Percent)
    IN  IF t.Name = ""
        THEN [l EXCEPT !.errs = errs, !.percentSum = sum, !.i = l.i + 1]
        ELSE IF t.Name \notin DOMAIN l.trafficMap
        THEN [l EXCEPT !.errs = errs, !.percentSum = sum, !.i = l.i + 1,
                       !.trafficMap = (t.Name :> l.i) @@ l.trafficMap]
        ELSE [l EXCEPT !.errs = Also(errs, MultipleDefinitions(t.Name, l.trafficMap[t.Name], l.i)),
                       !.percentSum = sum, !.i = l.i + 1]

\* Faulty variant: the duplicate check done before the target's own validation.
LoopBodyDuplicateFirst(l, t) ==
    LET terrs == ViaFieldIndex(TrafficTargetValidate(t), "traffic", l.i)
        sum   == AddInt(l.percentSum, t.Percent)
    IN  IF t.Name = ""
        THEN [l EXCEPT !.errs = Also(l.errs, terrs), !.percentSum = sum, !.i = l.i + 1]
        ELSE IF t.Name \notin DOMAIN l.trafficMap
        THEN [l EXCEPT !.errs = Also(l.errs, terrs), !.percentSum = sum, !.i = l.i + 1,
                       !.trafficMap = (t.Name :> l.i) @@ l.trafficMap]
        ELSE [l EXCEPT !.errs = Also(Also(l.errs,
                                   MultipleDefinitions(t.Name, l.trafficMap[t.Name], l.i)), terrs),
                       !.percentSum = sum, !.i = l.i + 1]

\* Lines 48-72: one iteration of the loop, on the target t at index l.i.
LoopBody(l, t) ==
    LET errs == Also(l.errs, ViaFieldIndex(TrafficTargetValidate(t), "traffic", l.i))
        sum  == AddInt(l.percentSum, t.Percent)
    IN  IF t.Name = ""
        THEN [l EXCEPT !.errs = errs, !.percentSum = sum, !.i = l.i + 1]
        ELSE IF t.Name \notin DOMAIN l.trafficMap
        THEN [l EXCEPT !.errs = errs, !.percentSum = sum, !.i = l.i + 1,
                       !.trafficMap = (t.Name :> l.i) @@ l.trafficMap]
        ELSE [l EXCEPT !.errs = Also(errs, MultipleDefinitions(t.Name, l.trafficMap[t.Name], l.i)),
                       !.percentSum = sum, !.i = l.i + 1]

SumMismatch(percentSum) ==
    <<[FieldError("SumMismatch", <<<<"traffic">>>>) EXCEPT !.value = percentSum]>>

\* Faulty variant: only a total above 100 is reported.
SumCheckAbove(l) ==
    IF GtLit(l.percentSum, 100) THEN Also(l.errs, SumMismatch(l.percentSum)) ELSE l.errs

\* Lines 74-80: the sum check and the value returned.
SumCheck(l) ==
    IF NeLit(l.percentSum, 100) THEN Also(l.errs, SumMismatch(l.percentSum)) ELSE l.errs

\* The loop of lines 48-72 run to its end from locals l.
RECURSIVE RangeTraffic(_, _)
RangeTraffic(l, traffic) ==
    IF l.i >= Len(traffic) THEN l
    ELSE RangeTraffic(LoopBody(l, traffic[l.i + 1]), traffic)

\* RouteSpec.Validate as one call.
RouteSpecValidate(ctx, rs) ==
    IF DeepEqualZero(rs) THEN ErrMissingField(<<CurrentField>>)
    ELSE SumCheck(RangeTraffic(EntryLocals(ctx, rs), rs.Traffic))

\* Route.Validate as one call (lines 29-33).
RouteValidate(ctx, r) ==
    Also(ViaField(ValidateObjectMetadata(r.ObjectMeta), "metadata"),
         ViaField(RouteSpecValidate(ctx, r.Spec), "spec"))

(***************************************************************************)
(* The calls.  Every invocation of RouteSpec.Validate allocates its own    *)
(* trafficMap, percentSum, errs and loop index (lines 40-48): the storage  *)
(* slot of a call is the call itself.                                      *)
(***************************************************************************)
Calls == {"c1", "c2"}
Objects == {"o1", "o2"}

\* Faulty variant: the locals kept in one package-level place.
SlotShared(c) == "c1"

Slot(c) == c

Receiver(c) == routes[obj[c]]

\* Line 30: errs := ValidateObjectMetadata(...).ViaField("metadata")
RouteValidateMetadata(c) ==
    /\ pc[c] = "start"
    /\ rerrs' = [rerrs EXCEPT ![c] =
                    ViaField(ValidateObjectMetadata(Receiver(c).ObjectMeta), "metadata")]
    /\ pc' = [pc EXCEPT ![c] = "spec"]
    /\ UNCHANGED <<routes, obj, locals, specRet, result, callCtx, tt, ttPc, ttRet>>

\* Lines 36-47: the empty-spec check; either the early return or the
\* initialisation of the locals.
RouteSpecValidateEntry(c) ==
    /\ pc[c] = "spec"
    /\ \/ /\ DeepEqualZero(Receiver(c).Spec)
          /\ specRet' = [specRet EXCEPT ![c] = ErrMissingField(<<CurrentField>>)]
          /\ pc' = [pc EXCEPT ![c] = "ret"]
          /\ UNCHANGED locals
       \/ /\ ~DeepEqualZero(Receiver(c).Spec)
          /\ locals' = [locals EXCEPT ![Slot(c)] = EntryLocals(callCtx[c], Receiver(c).Spec)]
          /\ pc' = [pc EXCEPT ![c] = "loop"]
          /\ UNCHANGED specRet
    /\ UNCHANGED <<routes, obj, rerrs, result, callCtx, tt, ttPc, ttRet>>

\* Lines 48-72: one iteration of the range loop.
RouteSpecValidateLoop(c) ==
    /\ pc[c] = "loop"
    /\ locals[Slot(c)].i < Len(Receiver(c).Spec.Traffic)
    /\ locals' = [locals EXCEPT ![Slot(c)] =
                     LoopBody(locals[Slot(c)],
                              Receiver(c).Spec.Traffic[locals[Slot(c)].i + 1])]
    /\ UNCHANGED <<routes, obj, pc, rerrs, specRet, result, callCtx, tt, ttPc, ttRet>>

\* Lines 74-80: the loop is over; sum check and return.
RouteSpecValidateReturn(c) ==
    /\ pc[c] = "loop"
    /\ locals[Slot(c)].i >= Len(Receiver(c).Spec.Traffic)
    /\ specRet' = [specRet EXCEPT ![c] = SumCheck(locals[Slot(c)])]
    /\ pc' = [pc EXCEPT ![c] = "ret"]
    /\ UNCHANGED <<routes, obj, rerrs, locals, result, callCtx, tt, ttPc, ttRet>>

\* Lines 31-32: errs = errs.Also(<spec result>.ViaField("spec")); return errs
RouteValidateReturn(c) ==
    /\ pc[c] = "ret"
    /\ result' = [result EXCEPT ![c] = Also(rerrs[c], ViaField(specRet[c], "spec"))]
    /\ pc' = [pc EXCEPT ![c] = "done"]
    /\ UNCHANGED <<routes, obj, rerrs, locals, specRet, callCtx, tt, ttPc, ttRet>>

\* TrafficTarget.Validate called on tt.
TargetValidate ==
    /\ ttPc = "call"
    /\ ttRet' = TrafficTargetValidate(tt)
    /\ ttPc' = "done"
    /\ UNCHANGED <<routes, obj, pc, rerrs, locals, specRet, result, callCtx, tt>>

Next ==
    \E c \in Calls :
        \/ RouteValidateMetadata(c)
        \/ RouteSpecValidateEntry(c)
        \/ RouteSpecValidateLoop(c)
        \/ RouteSpecValidateReturn(c)
        \/ RouteValidateReturn(c)

TargetNext == TargetValidate

(***************************************************************************)
(* Inputs.                                                                 *)
(***************************************************************************)
Target(name, rev, cfg, percent, url) ==
    [Name |-> name, RevisionName |-> rev, ConfigurationName |-> cfg,
     Percent |-> percent, URL |-> url]

\* TargetSpec: every combination of these field values.
AllTargets ==
    [Name : {"", "a"},
     RevisionName : {"", "rev-1", "Bad_Rev!"},
     ConfigurationName : {"", "cfg-1", "Bad_Cfg!"},
     Percent : {MinInt64, I64(-1), I64(0), I64(1), I64(50), I64(100), I64(101),
                I64(150), MaxInt64},
     URL : {"", "http://route.example.com"}]

Names == {"", "a", "b"}

\* Spec: every name on a valid target and on a target breaking all three
\* rules, a target whose weight is near the least int, and one target
\* carrying the whole traffic.
SeqTargets ==
    UNION {{Target(n, "rev-1", "", I64(50), ""),
            Target(n, "rev-1", "cfg-1", I64(150), "http://route.example.com")} : n \in Names}
      \cup {Target("a", "", "Bad_Cfg!", AddInt(MinInt64, I64(50)), ""),
            Target("", "", "cfg-1", I64(100), "")}

\* ConcSpec: two targets sharing a name.
ConcTargets ==
    {Target("a", "rev-1", "", I64(50), ""),
     Target("a", "", "", I64(150), "http://route.example.com")}

TrafficLists(targets, max) == UNION {[1..n -> targets] : n \in 0..max}

MetaAnswers == {Nil, <<FieldError("InvalidValue", <<<<"name">>>>)>>}
Contexts == {[deprecated |-> Nil], [deprecated |-> ErrDisallowedFields(<<"generation">>)]}

Routes(lists, metas) ==
    {[ObjectMeta |-> [answer |-> m],
      Spec |-> [DeprecatedGeneration |-> g, Traffic |-> t]] :
        m \in metas, g \in {0, 1}, t \in lists}

ZeroLocals == [errs |-> Nil, trafficMap |-> EmptyMap, percentSum |-> I64(0), i |-> 0]
ZeroRoute ==
    [ObjectMeta |-> [answer |-> Nil], Spec |-> [DeprecatedGeneration |-> 0, Traffic |-> <<>>]]
ZeroTarget == Target("", "", "", I64(0), "")

CallsInit ==
    /\ rerrs = [c \in Calls |-> Nil]
    /\ locals = [c \in Calls |-> ZeroLocals]
    /\ specRet = [c \in Calls |-> Nil]
    /\ result = [c \in Calls |-> Nil]

\* One call, c1, on one object.
Init ==
    /\ \E r \in Routes(TrafficLists(SeqTargets, MaxTargets), MetaAnswers) :
          routes = [o \in Objects |-> r]
    /\ obj = [c \in Calls |-> "o1"]
    /\ \E x \in Contexts : callCtx = [c \in Calls |-> x]
    /\ pc = [c \in Calls |-> IF c = "c1" THEN "start" ELSE "idle"]
    /\ CallsInit
    /\ tt = ZeroTarget /\ ttPc = "idle" /\ ttRet = Nil

\* Two calls, on the same object or on two objects.
ConcInit ==
    /\ routes \in [Objects -> Routes(TrafficLists(ConcTargets, MaxConcTargets),
                                     {<<FieldError("InvalidValue", <<<<"name">>>>)>>})]
    /\ obj \in [Calls -> Objects]
    /\ obj["c1"] = "o1"
    /\ obj["c2"] = "o1" => routes["o2"] = routes["o1"]
    /\ callCtx \in [Calls -> Contexts]
    /\ pc = [c \in Calls |-> "start"]
    /\ CallsInit
    /\ tt = ZeroTarget /\ ttPc = "idle" /\ ttRet = Nil

\* One target handed to TrafficTarget.Validate.
TargetInit ==
    /\ routes = [o \in Objects |-> ZeroRoute]
    /\ obj = [c \in Calls |-> "o1"]
    /\ callCtx = [c \in Calls |-> [deprecated |-> Nil]]
    /\ pc = [c \in Calls |-> "idle"]
    /\ CallsInit
    /\ tt \in AllTargets /\ ttPc = "call" /\ ttRet = Nil

Spec == Init /\ [][Next]_vars
ConcSpec == ConcInit /\ [][Next]_vars
TargetSpec == TargetInit /\ [][TargetNext]_vars

(***************************************************************************)
(* Vocabulary of the properties.                                           *)
(***************************************************************************)
Traffic(c) == Receiver(c).Spec.Traffic
Generation(c) == Receiver(c).Spec.DeprecatedGeneration
Returned(c) == pc[c] = "done"

\* The exact (unbounded) sum of the weights is 100: with every |lo| far
\* below 2^62, sum(hi) * 2^62 + sum(lo) = 100 iff sum(hi) = 0 and sum(lo) = 100.
RECURSIVE SumHi(_)
SumHi(traffic) ==
    IF traffic = <<>> THEN 0 ELSE Head(traffic).Percent.hi + SumHi(Tail(traffic))
RECURSIVE SumLo(_)
SumLo(traffic) ==
    IF traffic = <<>> THEN 0 ELSE Head(traffic).Percent.lo + SumLo(Tail(traffic))
SumIs100(traffic) == SumHi(traffic) = 0 /\ SumLo(traffic) = 100

InRange(t) == t.Percent.hi = 0 /\ t.Percent.lo \in 0..100
OneValidDestination(t) ==
    \/ t.RevisionName # "" /\ t.ConfigurationName = "" /\ IsQualifiedName(t.RevisionName) = <<>>
    \/ t.ConfigurationName # "" /\ t.RevisionName = "" /\ IsQualifiedName(t.ConfigurationName) = <<>>

OfKind(fe, kinds) == SelectSeq(fe, LAMBDA e : e.kind \in kinds)
Rendered(e) == [p \in 1..Len(e.paths) |-> Render(e.paths[p])]
SelectorKinds == {"MultipleOneOf", "MissingOneOf", "InvalidKeyName"}
TargetKinds == SelectorKinds \cup {"OutOfBoundsValue", "DisallowedFields"}

\* 0-based indices of the targets, and the occurrences of a name.
Indices(traffic) == 0..(Len(traffic) - 1)
Occurrences(traffic, name) == {i \in Indices(traffic) : traffic[i + 1].Name = name}
FirstOccurrence(traffic, i) ==
    CHOOSE j \in Occurrences(traffic, traffic[i + 1].Name) :
        \A k \in Occurrences(traffic, traffic[i + 1].Name) : j <= k
IsRepeat(traffic, i) == traffic[i + 1].Name # "" /\ FirstOccurrence(traffic, i) < i
NameAt(i) == "traffic" \o asIndex(i) \o ".name"

(***************************************************************************)
(* C1: for a Spec with at least one target, RouteSpec.Validate returns a   *)
(* SumMismatch error (path "traffic") if and only if the sum of the        *)
(* weights of all targets is not exactly 100.                              *)
(***************************************************************************)
C1_SumMismatchIffSumNot100 ==
    \A c \in Calls :
        Returned(c) /\ Len(Traffic(c)) >= 1 =>
            /\ (OfKind(specRet[c], {"SumMismatch"}) # <<>>) <=> ~SumIs100(Traffic(c))
            /\ \A k \in DOMAIN specRet[c] :
                  specRet[c][k].kind = "SumMismatch" =>
                      Rendered(specRet[c][k]) = <<"traffic">>

\* What the code does decide: SumMismatch is reported iff the total as the
\* loop computed it, wrapped to the width of int, differs from 100.
RECURSIVE WrappedSum(_)
WrappedSum(traffic) ==
    IF traffic = <<>> THEN I64(0)
    ELSE AddInt(WrappedSum(SubSeq(traffic, 1, Len(traffic) - 1)), traffic[Len(traffic)].Percent)

SumMismatchIffWrappedSumNot100 ==
    \A c \in Calls :
        Returned(c) /\ Len(Traffic(c)) >= 1 =>
            (OfKind(specRet[c], {"SumMismatch"}) # <<>>) <=> WrappedSum(Traffic(c)) # I64(100)

(***************************************************************************)
(* C2: a non-empty name at N >= 2 indices yields exactly N-1               *)
(* DuplicateDefinition errors, one for each later occurrence i, with the   *)
(* paths traffic[j].name and traffic[i].name, j the first occurrence; a    *)
(* name occurring once yields none and the empty name never yields one.    *)
(***************************************************************************)
C2_DuplicatesAgainstFirst ==
    \A c \in Calls :
        Returned(c) =>
            LET dups == OfKind(specRet[c], {"DuplicateDefinition"})
                tr   == Traffic(c)
            IN  /\ \A i \in Indices(tr) :
                      LET at == {k \in DOMAIN dups :
                                    Len(dups[k].paths) = 2 /\ Render(dups[k].paths[2]) = NameAt(i)}
                      IN  /\ Cardinality(at) = IF IsRepeat(tr, i) THEN 1 ELSE 0
                          /\ \A k \in at :
                                /\ Render(dups[k].paths[1]) = NameAt(FirstOccurrence(tr, i))
                                /\ dups[k].key = tr[i + 1].Name
                /\ \A n \in {tr[i + 1].Name : i \in Indices(tr)} \cup {""} :
                      Cardinality({k \in DOMAIN dups : dups[k].key = n}) =
                          IF n = "" \/ Occurrences(tr, n) = {} THEN 0
                          ELSE Cardinality(Occurrences(tr, n)) - 1

C2_Witness ==
    \E c \in Calls :
        /\ Returned(c)
        /\ Cardinality(Occurrences(Traffic(c), "a")) = 3
        /\ Len(OfKind(specRet[c], {"DuplicateDefinition"})) = 2

(***************************************************************************)
(* C3: a target with exactly one destination field set and valid, a weight *)
(* in [0,100] and no URL is accepted by TrafficTarget.Validate, whatever   *)
(* its name.                                                               *)
(***************************************************************************)
C3_ValidTargetAccepted ==
    ttPc = "done" /\ OneValidDestination(tt) /\ InRange(tt) /\ tt.URL = "" => ttRet = Nil

C3_Witness ==
    /\ ttPc = "done" /\ OneValidDestination(tt) /\ tt.URL = ""
    /\ tt.Percent = I64(0) /\ tt.Name = "a" /\ ttRet = Nil

(***************************************************************************)
(* C4: a structurally empty Spec yields exactly one error, MissingField at *)
(* the current path, and nothing else (no deprecated-field error, no       *)
(* SumMismatch); Route.Validate reports it at path "spec".                 *)
(***************************************************************************)
C4_EmptySpecMissingField ==
    \A c \in Calls :
        Returned(c) /\ Len(Traffic(c)) = 0 /\ Generation(c) = 0 =>
            /\ Len(specRet[c]) = 1
            /\ specRet[c][1].kind = "MissingField"
            /\ Rendered(specRet[c][1]) = <<"">>
            /\ Len(result[c]) = Len(ValidateObjectMetadata(Receiver(c).ObjectMeta)) + 1
            /\ result[c][Len(result[c])].kind = "MissingField"
            /\ Rendered(result[c][Len(result[c])]) = <<"spec">>

C4_Witness ==
    \E c \in Calls :
        /\ Returned(c) /\ Len(Traffic(c)) = 0 /\ Generation(c) = 0
        /\ callCtx[c].deprecated # Nil
        /\ Len(result[c]) = 2

(***************************************************************************)
(* C5: the destination selector has four exclusive outcomes: both fields   *)
(* set -> MultipleOneOf on both paths; neither -> MissingOneOf on both     *)
(* paths; one set and invalid -> InvalidKeyName on that field's path; one  *)
(* set and valid -> no selector error.  Never more than one selector error.*)
(***************************************************************************)
C5_SelectorFourWay ==
    ttPc = "done" =>
        LET sel  == OfKind(ttRet, SelectorKinds)
            both == <<"revisionName", "configurationName">>
        IN  /\ Len(sel) <= 1
            /\ tt.RevisionName # "" /\ tt.ConfigurationName # "" =>
                  Len(sel) = 1 /\ sel[1].kind = "MultipleOneOf" /\ Rendered(sel[1]) = both
            /\ tt.RevisionName = "" /\ tt.ConfigurationName = "" =>
                  Len(sel) = 1 /\ sel[1].kind = "MissingOneOf" /\ Rendered(sel[1]) = both
            /\ tt.RevisionName # "" /\ tt.ConfigurationName = ""
                  /\ IsQualifiedName(tt.RevisionName) # <<>> =>
                  /\ Len(sel) = 1 /\ sel[1].kind = "InvalidKeyName"
                  /\ Rendered(sel[1]) = <<"revisionName">> /\ sel[1].key = tt.RevisionName
            /\ tt.ConfigurationName # "" /\ tt.RevisionName = ""
                  /\ IsQualifiedName(tt.ConfigurationName) # <<>> =>
                  /\ Len(sel) = 1 /\ sel[1].kind = "InvalidKeyName"
                  /\ Rendered(sel[1]) = <<"configurationName">>
                  /\ sel[1].key = tt.ConfigurationName
            /\ OneValidDestination(tt) => sel = <<>>

C5_Witness ==
    /\ ttPc = "done"
    /\ tt.RevisionName = "Bad_Rev!" /\ tt.ConfigurationName = "cfg-1"
    /\ Len(OfKind(ttRet, SelectorKinds)) = 1
    /\ ttRet[1].kind = "MultipleOneOf"

(***************************************************************************)
(* C6: TrafficTarget.Validate does not stop at the first violation:        *)
(* OutOfBoundsValue at "percent" iff the weight is below 0 or above 100,   *)
(* DisallowedFields at "url" iff the URL is set, each independently of the *)
(* other and of the selector outcome.                                      *)
(***************************************************************************)
C6_BoundsAndUrlIndependent ==
    ttPc = "done" =>
        LET oob == OfKind(ttRet, {"OutOfBoundsValue"})
            dis == OfKind(ttRet, {"DisallowedFields"})
        IN  /\ Len(oob) = IF InRange(tt) THEN 0 ELSE 1
            /\ \A k \in DOMAIN oob :
                  Rendered(oob[k]) = <<"percent">> /\ oob[k].value = tt.Percent
            /\ Len(dis) = IF tt.URL = "" THEN 0 ELSE 1
            /\ \A k \in DOMAIN dis : Rendered(dis[k]) = <<"url">>

C6_Witness ==
    /\ ttPc = "done"
    /\ tt.RevisionName = "" /\ tt.ConfigurationName = ""
    /\ tt.Percent = I64(150) /\ tt.URL # ""
    /\ Len(ttRet) = 3

(***************************************************************************)
(* C7: concurrent Validate calls, on the same Route or on different ones,  *)
(* with their steps interleaved in any order, each return what the call    *)
(* returns when run alone; no step writes a Route, a context, or the       *)
(* state of another call.                                                  *)
(***************************************************************************)
Frame(c) == <<pc[c], rerrs[c], locals[c], specRet[c], result[c]>>

C7_ConcurrentCallsIsolated ==
    /\ [](\A c \in Calls :
            /\ pc[c] \in {"ret", "done"} =>
                  specRet[c] = RouteSpecValidate(callCtx[c], Receiver(c).Spec)
            /\ pc[c] = "done" => result[c] = RouteValidate(callCtx[c], Receiver(c)))
    /\ [][/\ routes' = routes
          /\ callCtx' = callCtx
          /\ \A c1, c2 \in Calls : c1 # c2 => (Frame(c1)' = Frame(c1) \/ Frame(c2)' = Frame(c2))
         ]_vars

C7_Witness ==
    /\ pc["c1"] = "done" /\ pc["c2"] = "done"
    /\ obj["c1"] = obj["c2"]
    /\ Len(Traffic("c1")) = 2
    /\ result["c1"] # result["c2"]

(***************************************************************************)
(* C8: the errors of the target at index i appear in RouteSpec.Validate's  *)
(* result under traffic[i] and under no other index; Route.Validate puts   *)
(* the metadata result under "metadata" and the Spec result under "spec",  *)
(* adds nothing of its own, and returns absent exactly when both are       *)
(* absent.                                                                 *)
(***************************************************************************)
UnderTraffic(e) == Len(e.paths[1]) >= 2 /\ e.paths[1][1] = "traffic"
TargetErrsAt(fe, i) ==
    SelectSeq(fe, LAMBDA e : e.kind \in TargetKinds /\ UnderTraffic(e)
                              /\ e.paths[1][2] = asIndex(i))
Under(prefix, path) == IF path = "" THEN prefix ELSE prefix \o "." \o path

C8_PathsPrefixed ==
    \A c \in Calls :
        Returned(c) /\ ~DeepEqualZero(Receiver(c).Spec) =>
            LET tr   == Traffic(c)
                meta == ValidateObjectMetadata(Receiver(c).ObjectMeta)
            IN  /\ \A i \in Indices(tr) :
                      LET own == TrafficTargetValidate(tr[i + 1])
                          got == TargetErrsAt(specRet[c], i)
                      IN  /\ Len(got) = Len(own)
                          /\ \A m \in DOMAIN own :
                                /\ got[m].kind = own[m].kind
                                /\ Rendered(got[m]) =
                                      [p \in DOMAIN own[m].paths |->
                                          Under("traffic" \o asIndex(i), Render(own[m].paths[p]))]
                /\ \A k \in DOMAIN specRet[c] :
                      specRet[c][k].kind \in TargetKinds /\ UnderTraffic(specRet[c][k]) =>
                          \E i \in Indices(tr) : specRet[c][k].paths[1][2] = asIndex(i)
                /\ Len(result[c]) = Len(meta) + Len(specRet[c])
                /\ \A k \in DOMAIN meta :
                      /\ result[c][k].kind = meta[k].kind
                      /\ Rendered(result[c][k]) =
                            [p \in DOMAIN meta[k].paths |-> Under("metadata", Render(meta[k].paths[p]))]
                /\ \A k \in DOMAIN specRet[c] :
                      /\ result[c][Len(meta) + k].kind = specRet[c][k].kind
                      /\ Rendered(result[c][Len(meta) + k]) =
                            [p \in DOMAIN specRet[c][k].paths |->
                                Under("spec", Render(specRet[c][k].paths[p]))]
                /\ (result[c] = Nil) <=> (meta = Nil /\ specRet[c] = Nil)

C8_Witness ==
    \E c \in Calls :
        /\ Returned(c)
        /\ Len(Traffic(c)) = 3
        /\ TrafficTargetValidate(Traffic(c)[1]) = Nil
        /\ ValidateObjectMetadata(Receiver(c).ObjectMeta) # Nil
        /\ \E k \in DOMAIN result[c] :
              /\ result[c][k].kind = "OutOfBoundsValue"
              /\ Rendered(result[c][k]) = <<"spec.traffic[2].percent">>
        /\ \E k \in DOMAIN result[c] :
              Rendered(result[c][k]) = <<"spec.traffic[1].name", "spec.traffic[2].name">>

(***************************************************************************)
(* C9: errors come in traversal order: the deprecated-field error first;   *)
(* then, target by target, the target's own errors (selector, then         *)
(* OutOfBoundsValue, then DisallowedFields) followed by the                *)
(* DuplicateDefinition raised at that target; the SumMismatch error last.  *)
(* Merging an absent error adds nothing.                                   *)
(***************************************************************************)
IndexOf(seg) == CHOOSE i \in 0..(MaxTargets + 1) : asIndex(i) = seg

\* Where in the traversal an error was raised.
Rank(e, n) ==
    IF e.kind = "SumMismatch" THEN 2 * n
    ELSE IF e.kind = "DuplicateDefinition" THEN 2 * IndexOf(e.paths[2][2]) + 1
    ELSE IF e.kind \in TargetKinds /\ UnderTraffic(e) THEN 2 * IndexOf(e.paths[1][2])
    ELSE -1

KindOrder(kind) ==
    IF kind \in SelectorKinds THEN 1 ELSE IF kind = "OutOfBoundsValue" THEN 2 ELSE 3

RECURSIVE OwnErrors(_)
OwnErrors(traffic) ==
    IF traffic = <<>> THEN 0
    ELSE Len(TrafficTargetValidate(Head(traffic))) + OwnErrors(Tail(traffic))

C9_TraversalOrder ==
    \A c \in Calls :
        Returned(c) /\ ~DeepEqualZero(Receiver(c).Spec) =>
            LET fe == specRet[c]
                n  == Len(Traffic(c))
            IN  /\ \A k1, k2 \in DOMAIN fe :
                      k1 < k2 =>
                          /\ Rank(fe[k1], n) <= Rank(fe[k2], n)
                          /\ Rank(fe[k1], n) = Rank(fe[k2], n) /\ Rank(fe[k1], n) >= 0 =>
                                KindOrder(fe[k1].kind) < KindOrder(fe[k2].kind)
                /\ Len(fe) = Len(callCtx[c].deprecated) + OwnErrors(Traffic(c))
                                + Cardinality({i \in Indices(Traffic(c)) : IsRepeat(Traffic(c), i)})
                                + Len(OfKind(fe, {"SumMismatch"}))
                /\ Len(OfKind(fe, {"SumMismatch"})) <= 1

C9_Witness ==
    \E c \in Calls :
        /\ Returned(c)
        /\ callCtx[c].deprecated # Nil
        /\ Len(Traffic(c)) = 3
        /\ Len(TrafficTargetValidate(Traffic(c)[1])) = 3
        /\ TrafficTargetValidate(Traffic(c)[2]) = Nil
        /\ Len(TrafficTargetValidate(Traffic(c)[3])) = 3
        /\ IsRepeat(Traffic(c), 2)
        /\ specRet[c][Len(specRet[c])].kind = "SumMismatch"
        /\ Len(specRet[c]) = 9

(***************************************************************************)
(* C10: when the deprecated-field check reports nothing, RouteSpec.Validate*)
(* returns absent iff there is at least one target, every target has one   *)
(* valid destination, a weight in [0,100] and no URL, the non-empty names  *)
(* are distinct and the weights sum to 100.  A Spec without targets whose  *)
(* deprecated field is set gets SumMismatch with total 0, not MissingField.*)
(***************************************************************************)
Acceptable(rs) ==
    /\ Len(rs.Traffic) >= 1
    /\ \A k \in DOMAIN rs.Traffic :
          OneValidDestination(rs.Traffic[k]) /\ InRange(rs.Traffic[k]) /\ rs.Traffic[k].URL = ""
    /\ \A i \in Indices(rs.Traffic) : ~IsRepeat(rs.Traffic, i)
    /\ SumIs100(rs.Traffic)

C10_AcceptanceCharacterised ==
    \A c \in Calls :
        Returned(c) =>
            /\ callCtx[c].deprecated = Nil =>
                  ((specRet[c] = Nil) <=> Acceptable(Receiver(c).Spec))
            /\ Len(Traffic(c)) = 0 /\ Generation(c) # 0 =>
                  /\ OfKind(specRet[c], {"MissingField"}) = <<>>
                  /\ Len(OfKind(specRet[c], {"SumMismatch"})) = 1
                  /\ OfKind(specRet[c], {"SumMismatch"})[1].value = I64(0)
                  /\ Rendered(OfKind(specRet[c], {"SumMismatch"})[1]) = <<"traffic">>

C10_Witness ==
    \E c \in Calls :
        /\ Returned(c)
        /\ callCtx[c].deprecated = Nil
        /\ Len(Traffic(c)) = 2
        /\ Traffic(c)[1].Name = "a" /\ Traffic(c)[2].Name = "b"
        /\ specRet[c] = Nil

====
